---- MODULE Spec2Model ----
(***************************************************************************)
(* Streaming transcription bridge (davidbmar/nvidia-parakeet-ver-5).       *)
(*                                                                         *)
(* The components are modelled, each with its own specification:           *)
(*   SpecAP      websocket/audio_processor.py   AudioProcessor             *)
(*   SpecBridge  src/asr/riva_websocket_bridge.py                          *)
(*               ConnectionManager + RivaWebSocketBridge (asyncio tasks)   *)
(*   SpecManager the ConnectionManager alone, with several ids             *)
(*   SpecWSH     websocket/websocket_handler.py + transcription_stream.py  *)
(*               WebSocketHandler + TranscriptionStream                    *)
(* The variables of the components a specification does not exercise keep  *)
(* their initial values.                                                   *)
(***************************************************************************)
EXTENDS Integers, Sequences, FiniteSets, TLC

(***************************************************************************)
(* Bounds of the model.                                                    *)
(***************************************************************************)
\* largest audio chunk, in bytes (two bytes per int16 sample)
MaxChunkBytes == 6
\* max_segment_samples, scaled down from int(16000 * 5.0)
MaxSegmentSamples == 6
\* cap on the silence counter, which the code lets grow without limit
MaxSilenceCounter == 6
\* the interim-transcription threshold of _handle_audio_data, scaled down from 16000
PartialSamples == 1
\* frames the client of WebSocketHandler sends
MaxWhFrames == 5

(***************************************************************************)
(* Program constants.                                                      *)
(***************************************************************************)
\* int(silence_duration_s * 1000 / chunk_duration_ms) = int(0.5 * 1000 / 100)
silence_chunks == 5
\* np.frombuffer(audio_data, dtype='int16'): bytes per sample
BytesPerSample == 2

Max(a, b) == IF a >= b THEN a ELSE b

Last(s) == s[Len(s)]

RECURSIVE Repeat(_, _)
Repeat(x, n) == IF n = 0 THEN <<>> ELSE <<x>> \o Repeat(x, n - 1)

IsPrefix(s, t) == Len(s) <= Len(t) /\ \A i \in 1..Len(s) : s[i] = t[i]

(***************************************************************************)
(* AudioProcessor                                                          *)
(*                                                                         *)
(* A chunk is the raw frame handed to process_chunk: its byte length, and  *)
(* the two measurements _detect_voice_activity takes of the high-pass      *)
(* filtered signal: whether its RMS energy exceeds vad_threshold, and its  *)
(* number of zero crossings.  A sample of the pending buffer carries the   *)
(* classification of the chunk it came from.                               *)
(***************************************************************************)
NumSamples(chunk) == chunk.nbytes \div BytesPerSample

Chunks ==
    { c \in [nbytes : 0..MaxChunkBytes, energy : BOOLEAN, zc : 0..MaxChunkBytes] :
        /\ c.zc <= Max(0, NumSamples(c) - 1)
        /\ (c.nbytes % BytesPerSample # 0 \/ c.nbytes = 0) => (c.zc = 0 /\ ~c.energy) }

\* np.frombuffer raises ValueError when the buffer is no whole number of samples
DecodeError(chunk) == chunk.nbytes % BytesPerSample # 0

\* has_voice_energy and has_speech_zcr, zcr = zero_crossings / len(audio)
_detect_voice_activity(chunk) ==
    LET n == NumSamples(chunk)
        zcr100 == IF n > 1 THEN 100 * chunk.zc ELSE 0
    IN  IF n = 0 THEN FALSE
        ELSE chunk.energy /\ n < zcr100 /\ zcr100 < 35 * n

NewAudioProcessor == [current_segment |-> <<>>, silence_counter |-> 0]

ForceCutIgnoringChunk(p, n) == Len(p.current_segment) >= MaxSegmentSamples

\* the forced-segmentation test of process_chunk
ForceCut(p, n) == Len(p.current_segment) + n >= MaxSegmentSamples

SilenceCutLate(p, counter) == counter > silence_chunks /\ Len(p.current_segment) > 0

\* the silence test of process_chunk, taken after the counter was incremented
SilenceCut(p, counter) == counter >= silence_chunks /\ Len(p.current_segment) > 0

\* process_chunk: the processor afterwards, the is_end_of_segment flag, and
\* whether decoding raised (the processor is then untouched)
process_chunk(p, chunk) ==
    IF DecodeError(chunk)
    THEN [proc |-> p, is_end |-> FALSE, raised |-> TRUE]
    ELSE
    LET n == NumSamples(chunk)
        has_voice == _detect_voice_activity(chunk)
        counter == IF ForceCut(p, n) THEN p.silence_counter
                   ELSE IF has_voice THEN 0
                   ELSE p.silence_counter + 1
        is_end == \/ ForceCut(p, n)
                  \/ /\ ~has_voice
                     /\ SilenceCut(p, counter)
        seg == IF is_end THEN p.current_segment
               ELSE p.current_segment \o Repeat(has_voice, n)
    IN  [proc |-> [current_segment |-> seg, silence_counter |-> counter],
         is_end |-> is_end, raised |-> FALSE]

NoSegment == [some |-> FALSE, samples |-> <<>>]

\* no chunk is passed to get_segment and reset
NoChunk == [nbytes |-> 0, energy |-> FALSE, zc |-> 0]

\* not in a run of chunks without voice that began with audio pending and the
\* silence counter at 0
NoRun == 0 - 1

\* the chunks without voice fed in a row since the processor last had audio
\* pending and its silence counter at 0, after a call that leaves the processor
\* as p; the chunk that completes the count ends the run, as any other call does
NextRun(run, p, silent) ==
    IF silent /\ run # NoRun /\ run < silence_chunks THEN run + 1
    ELSE IF p.current_segment # <<>> /\ p.silence_counter = 0 THEN 0
    ELSE NoRun

\* a call of the processor: the length and classification of the chunk passed,
\* what the call reported, and the run of silent chunks it belongs to
Call(op, is_end, raised, chunk, run) ==
    [op |-> op, is_end |-> is_end, raised |-> raised, nbytes |-> chunk.nbytes,
     has_voice |-> _detect_voice_activity(chunk), run |-> run]

GetSegmentKeepsBuffer(p) ==
    [proc |-> p, segment |-> [some |-> p.current_segment # <<>>, samples |-> p.current_segment]]

\* get_segment: None when nothing is pending, else the buffer, which is cleared
get_segment(p) ==
    IF p.current_segment = <<>>
    THEN [proc |-> p, segment |-> NoSegment]
    ELSE [proc |-> [current_segment |-> <<>>, silence_counter |-> 0],
          segment |-> [some |-> TRUE, samples |-> p.current_segment]]

\* reset
reset(p) == [current_segment |-> <<>>, silence_counter |-> 0]

(***************************************************************************)
(* RivaWebSocketBridge and ConnectionManager                               *)
(*                                                                         *)
(* asyncio runs one handle_connection task per connection and one          *)
(* _transcription_worker task per started session; a task runs without     *)
(* interruption from one await to the next.  Connection ids stand for the  *)
(* uuid4 strings: each is issued once.  A session of a connection is       *)
(* numbered by the position of its worker task in tasks[c]; the session's  *)
(* asyncio.Queue lives in that task record (the worker holds the queue it  *)
(* was started with).  RivaASRClient is an external collaborator: connect  *)
(* may succeed, refuse or raise; stream_transcribe pulls chunks from the   *)
(* audio generator and yields events as it chooses, and may fail; close    *)
(* may raise.                                                              *)
(***************************************************************************)
\* connection ids that can be issued
MaxConns == 3
\* frames the client sends
MaxFrames == 3
\* recognition events the Transcription Service yields, over all sessions
MaxEvents == 2
\* remove_connection calls made for one connection id
MaxRemoveCalls == 2

ConnIds == 1..MaxConns

\* the connections SpecBridge opens: the sessions of one client, with its worker
\* tasks, are followed in full; SpecManager exercises the registry with all ids
BridgeConns == {1}

\* two connections that are open at the same time
PairConns == {1, 2}

\* control messages that are answered with one reply and change nothing: a type
\* the bridge does not know (ping, get_metrics and text that is not JSON are
\* answered the same way, with another reply)
OtherTypes == {"unknown"}

\* the dict add_connection stores; audio_queue and transcription_task are the
\* session number, 0 while the key is absent
NewConnData ==
    [session_active |-> FALSE, audio_queue |-> 0, transcription_task |-> 0,
     total_audio_chunks |-> 0, total_transcriptions |-> 0]

\* WebSocketConfig.max_connections, scaled to leave one more client than the limit
max_connections == MaxConns - 1

NewRivaClient == [connected |-> FALSE, close_calls |-> 0, closed |-> FALSE]

NewTask == [pc |-> "new", cancel |-> FALSE, queue |-> <<>>, accepted |-> <<>>,
            handed |-> <<>>, yielded |-> 0, event |-> "none"]

Msg(type, detail, sess, n) == [type |-> type, detail |-> detail, sess |-> sess, n |-> n]

VARIABLES
    proc,             \* SpecAP: one AudioProcessor
    last_segment,     \* SpecAP: what the latest get_segment returned
    last_call,        \* SpecAP: the latest call and what it reported
    connections,      \* ConnectionManager.connections: the registered ids
    connection_count, \* ConnectionManager.connection_count
    conn_data,        \* the per-connection dict (it outlives its registry entry)
    riva_client,      \* the RivaASRClient of each connection
    next_id,          \* the next connection id to issue
    hc,               \* where each handle_connection task stands
    ws_open,          \* whether the client's transport is still open
    tasks,            \* the worker tasks of each connection, in creation order
    sent,             \* the messages delivered to each client, in order
    last_frame,       \* the latest frame a read loop took, and how many so far
    remove_calls,     \* remove_connection calls per connection id
    rm,               \* the remove_connection call in progress for each id
    wh_pc,            \* WebSocketHandler: where handle_websocket stands
    active_connections, \* WebSocketHandler.active_connections: the client ids
    connection_states,  \* WebSocketHandler.connection_states of the client
    wh_sent,          \* the messages delivered to the client, in order
    wh_frames,        \* frames the client has sent
    wh_session,       \* start_recording messages handled so far
    wh_last,          \* the latest frame: its kind and the handler it reached
    wh_submitted,     \* the transcribe_segment calls made, in order
    wh_audio,         \* the audio handled and the segments counted, this session,
                      \* and whether the latest backend call failed
    peer_states,      \* WebSocketHandler.connection_states of a second client
    active_streams,   \* prototype bridge: the client ids that are keys of active_streams
    pb_pc,            \* prototype bridge: where handle_websocket of each client stands
    pb_frames,        \* prototype bridge: the messages each client has sent
    pb_last           \* prototype bridge: the type of the latest message sent to each client

apvars == <<proc, last_segment, last_call>>

pbvars == <<active_streams, pb_pc, pb_frames, pb_last>>

brvars == <<connections, connection_count, conn_data, riva_client, next_id, hc,
            ws_open, tasks, sent, last_frame, remove_calls, rm>>

whvars == <<wh_pc, active_connections, connection_states, wh_sent, wh_frames,
            wh_session, wh_last, wh_submitted, wh_audio, peer_states>>

vars == <<proc, last_segment, last_call, connections, connection_count, conn_data,
          riva_client, next_id, hc, ws_open, tasks, sent, last_frame, remove_calls,
          rm, wh_pc, active_connections, connection_states, wh_sent, wh_frames,
          wh_session, wh_last, wh_submitted, wh_audio, peer_states, active_streams,
          pb_pc, pb_frames, pb_last>>

InitAP ==
    /\ proc = NewAudioProcessor
    /\ last_segment = NoSegment
    /\ last_call = Call("init", FALSE, FALSE, NoChunk, NextRun(NoRun, NewAudioProcessor, FALSE))

InitBridge ==
    /\ connections = {}
    /\ connection_count = 0
    /\ conn_data = [c \in ConnIds |-> NewConnData]
    /\ riva_client = [c \in ConnIds |-> NewRivaClient]
    /\ next_id = 1
    /\ hc = [c \in ConnIds |-> "idle"]
    /\ ws_open = [c \in ConnIds |-> FALSE]
    /\ tasks = [c \in ConnIds |-> <<>>]
    /\ sent = [c \in ConnIds |-> <<>>]
    /\ last_frame = [conn |-> 0, type |-> "none", n |-> 0, connect |-> "none"]
    /\ remove_calls = [c \in ConnIds |-> 0]
    /\ rm = [c \in ConnIds |-> "none"]

(* ------------------------------ AudioProcessor ------------------------- *)

APProcessChunk ==
    /\ \E chunk \in Chunks :
        LET r == process_chunk(proc, chunk) IN
        /\ r.proc.silence_counter <= MaxSilenceCounter
        /\ proc' = r.proc
        /\ last_call' = Call("process_chunk", r.is_end, r.raised, chunk,
                              NextRun(last_call.run, r.proc,
                                      ~r.raised /\ ~_detect_voice_activity(chunk)))
        /\ UNCHANGED last_segment
    /\ UNCHANGED <<pbvars, brvars, whvars>>

APGetSegment ==
    /\ LET r == get_segment(proc) IN
        /\ proc' = r.proc
        /\ last_segment' = r.segment
        /\ last_call' = Call("get_segment", FALSE, FALSE, NoChunk,
                              NextRun(NoRun, r.proc, FALSE))
    /\ UNCHANGED <<pbvars, brvars, whvars>>

APReset ==
    /\ proc' = reset(proc)
    /\ last_call' = Call("reset", FALSE, FALSE, NoChunk, NextRun(NoRun, reset(proc), FALSE))
    /\ UNCHANGED last_segment
    /\ UNCHANGED <<pbvars, brvars, whvars>>

NextAP == APProcessChunk \/ APGetSegment \/ APReset

(* ------------------------------ the bridge ----------------------------- *)

\* _send_message: websocket.send, whose exception (a closed transport) is swallowed
SendTo(log, open, m) == IF open THEN Append(log, m) ELSE log

AddConnectionUncounted(c) ==
    /\ conn_data' = [conn_data EXCEPT ![c] = NewConnData]
    /\ riva_client' = [riva_client EXCEPT ![c] = NewRivaClient]
    /\ connections' = connections \cup {c}
    /\ UNCHANGED connection_count

AddConnectionSharedClient(c) ==
    /\ conn_data' = [conn_data EXCEPT ![c] = NewConnData]
    /\ riva_client' = [d \in ConnIds |-> NewRivaClient]
    /\ connections' = connections \cup {c}
    /\ connection_count' = connection_count + 1

\* add_connection
add_connection(c) ==
    /\ conn_data' = [conn_data EXCEPT ![c] = NewConnData]
    /\ riva_client' = [riva_client EXCEPT ![c] = NewRivaClient]
    /\ connections' = connections \cup {c}
    /\ connection_count' = connection_count + 1

\* handle_connection up to its read loop: add_connection, then the acknowledgment,
\* which is lost when the client has already gone
HandleConnection(c) ==
    /\ UNCHANGED <<apvars, pbvars, whvars>>
    /\ c = next_id
    /\ hc[c] = "idle"
    /\ rm[c] = "none"
    /\ next_id' = next_id + 1
    /\ add_connection(c)
    /\ \E open \in BOOLEAN :
        /\ ws_open' = [ws_open EXCEPT ![c] = open]
        /\ sent' = [sent EXCEPT ![c] = SendTo(@, open, Msg("connection", "", 0, 0))]
    /\ hc' = [hc EXCEPT ![c] = "loop"]
    /\ UNCHANGED <<tasks, last_frame, remove_calls, rm>>

\* the read loop takes the next frame of connection c; connect is what
\* riva_client.connect() does if the handler of the frame calls it
ReceivesWith(c, type, connect) ==
    /\ hc[c] = "loop"
    /\ ws_open[c]
    /\ c \in connections
    /\ last_frame.n < MaxFrames
    /\ last_frame' = [conn |-> c, type |-> type, n |-> last_frame.n + 1,
                      connect |-> connect]

Receives(c, type) == ReceivesWith(c, type, "none")

ConnectFailureIgnored(connect) == FALSE

\* "if not await riva_client.connect()", or connect() raises
ConnectFailed(connect) == connect # "ok"

AlreadyActiveUnchecked(cd) == FALSE

\* the guard of _start_transcription_session
AlreadyActive(cd) == cd.session_active

\* _start_transcription_session
StartTranscription(c) ==
    /\ UNCHANGED <<apvars, pbvars, whvars>>
    /\ IF AlreadyActive(conn_data[c])
       THEN /\ Receives(c, "start_transcription")
            /\ sent' = [sent EXCEPT ![c] =
                          SendTo(@, ws_open[c], Msg("error", "already_active", 0, 0))]
            /\ UNCHANGED <<conn_data, riva_client, tasks>>
       ELSE \E connect \in {"ok", "refused", "raises"} :
            /\ ReceivesWith(c, "start_transcription", connect)
            /\ IF ~ConnectFailed(connect)
               THEN LET k == Len(tasks[c]) + 1 IN
                    /\ riva_client' = [riva_client EXCEPT ![c].connected = TRUE]
                    /\ conn_data' = [conn_data EXCEPT ![c].audio_queue = k,
                                                      ![c].session_active = TRUE,
                                                      ![c].transcription_task = k]
                    /\ tasks' = [tasks EXCEPT ![c] = Append(@, NewTask)]
                    /\ sent' = [sent EXCEPT ![c] =
                                  SendTo(@, ws_open[c], Msg("session_started", "", k, 0))]
               ELSE /\ sent' = [sent EXCEPT ![c] =
                                  SendTo(@, ws_open[c],
                                         Msg("error", IF connect = "refused"
                                                      THEN "connect_failed"
                                                      ELSE "start_failed", 0, 0))]
                    /\ UNCHANGED <<conn_data, riva_client, tasks>>
    /\ UNCHANGED <<connections, connection_count, next_id, hc, ws_open, remove_calls, rm>>

NotActiveUnchecked(cd) == FALSE

\* the guard of _stop_transcription_session
NotActive(cd) == ~cd.session_active

\* task.cancel(): a request, honoured at the task's next step; nothing for a done task
CancelTask(t) == IF t.pc = "done" THEN t ELSE [t EXCEPT !.cancel = TRUE]

\* _stop_transcription_session up to "await conn_data['transcription_task']"
StopTranscription(c) ==
    /\ UNCHANGED <<apvars, pbvars, whvars>>
    /\ Receives(c, "stop_transcription")
    /\ IF NotActive(conn_data[c])
       THEN /\ sent' = [sent EXCEPT ![c] =
                          SendTo(@, ws_open[c], Msg("error", "not_active", 0, 0))]
            /\ UNCHANGED <<tasks, hc>>
       ELSE LET k == conn_data[c].transcription_task IN
            /\ tasks' = IF k = 0 THEN tasks
                        ELSE [tasks EXCEPT ![c][k] = CancelTask(@)]
            /\ hc' = [hc EXCEPT ![c] = "stopping"]
            /\ UNCHANGED sent
    /\ UNCHANGED <<connections, connection_count, conn_data, riva_client, next_id,
                   ws_open, remove_calls, rm>>

TaskTerminatedNoWait(c, k) == TRUE

\* "await conn_data['transcription_task']" returns (or raises CancelledError, which
\* is passed over) once the task has finished
TaskTerminated(c, k) == k = 0 \/ tasks[c][k].pc = "done"

\* the rest of _stop_transcription_session
StopFinish(c) ==
    /\ UNCHANGED <<apvars, pbvars, whvars>>
    /\ hc[c] = "stopping"
    /\ LET k == conn_data[c].transcription_task IN
        /\ TaskTerminated(c, k)
        /\ conn_data' = [conn_data EXCEPT ![c].session_active = FALSE,
                                          ![c].audio_queue = 0,
                                          ![c].transcription_task = 0]
        /\ sent' = [sent EXCEPT ![c] =
                      SendTo(@, ws_open[c], Msg("session_stopped", "", k, 0))]
    /\ hc' = [hc EXCEPT ![c] = "loop"]
    /\ UNCHANGED <<connections, connection_count, riva_client, next_id, ws_open,
                   tasks, last_frame, remove_calls, rm>>

QueueRefuse(q, chunk) == q

\* audio_queue.put on the unbounded asyncio.Queue
QueuePut(q, chunk) == Append(q, chunk)

\* _handle_audio_data: the frame is numbered by its arrival
HandleAudioData(c) ==
    /\ UNCHANGED <<apvars, pbvars, whvars>>
    /\ Receives(c, "audio")
    /\ LET cd == conn_data[c]
           k == cd.audio_queue
           chunk == last_frame.n + 1
       IN  IF ~cd.session_active \/ k = 0
           THEN UNCHANGED <<tasks, conn_data>>
           ELSE /\ tasks' = [tasks EXCEPT ![c][k].queue = QueuePut(@, chunk),
                                          ![c][k].accepted = Append(@, chunk)]
                /\ conn_data' = [conn_data EXCEPT ![c].total_audio_chunks = @ + 1]
    /\ UNCHANGED <<connections, connection_count, riva_client, next_id, hc, ws_open,
                   sent, remove_calls, rm>>

\* _handle_control_message for ping, get_metrics and any other type, and
\* _handle_message for text that is not JSON: one reply, no change of state
HandleMessageRejecting(c, types) ==
    /\ UNCHANGED <<apvars, pbvars, whvars>>
    /\ \E type \in types :
        /\ Receives(c, type)
        /\ sent' = [sent EXCEPT ![c] =
                      SendTo(@, ws_open[c], Msg("error", "unknown_type", 0, 0))]
    /\ UNCHANGED <<connections, connection_count, conn_data, riva_client, next_id,
                   hc, ws_open, tasks, remove_calls, rm>>

HandleMessageOf(c, types) ==
    /\ UNCHANGED <<apvars, pbvars, whvars>>
    /\ \E type \in types :
        /\ Receives(c, type)
        /\ sent' = [sent EXCEPT ![c] =
                      SendTo(@, ws_open[c],
                             IF type = "ping" THEN Msg("pong", "", 0, 0)
                             ELSE Msg("error", "unknown_type", 0, 0))]
    /\ UNCHANGED <<connections, connection_count, conn_data, riva_client, next_id,
                   hc, ws_open, tasks, remove_calls, rm>>

HandleOtherMessage(c) == HandleMessageOf(c, OtherTypes)

\* _handle_control_message for ping
HandlePing(c) == HandleMessageOf(c, {"ping"})

\* the client closes the transport, or it breaks
ClientDisconnect(c) ==
    /\ UNCHANGED <<apvars, pbvars, whvars>>
    /\ hc[c] \in {"loop", "stopping"}
    /\ ws_open[c]
    /\ ws_open' = [ws_open EXCEPT ![c] = FALSE]
    /\ UNCHANGED <<connections, connection_count, conn_data, riva_client, next_id, hc,
                   tasks, sent, last_frame, remove_calls, rm>>

RegisteredUnchecked(c) == TRUE

\* "if connection_id in self.connections"
Registered(c) == c \in connections

\* remove_connection up to "await conn_data['riva_client'].close()"; for an id
\* that is not registered it returns at once
remove_connection(c) ==
    /\ remove_calls' = [remove_calls EXCEPT ![c] = @ + 1]
    /\ IF Registered(c)
       THEN /\ riva_client' = [riva_client EXCEPT ![c].close_calls = @ + 1]
            /\ rm' = [rm EXCEPT ![c] = "closing"]
       ELSE /\ rm' = [rm EXCEPT ![c] = "returned"]
            /\ UNCHANGED riva_client

\* the read loop ends: ConnectionClosed, or another exception (reported with
\* _send_error); the finally clause calls remove_connection
LoopEnds(c) ==
    /\ UNCHANGED <<apvars, pbvars, whvars>>
    /\ hc[c] = "loop"
    /\ \/ /\ ~ws_open[c]
          /\ UNCHANGED sent
       \/ /\ ws_open[c]
          /\ sent' = [sent EXCEPT ![c] = Append(@, Msg("error", "connection_error", 0, 0))]
    /\ remove_connection(c)
    /\ hc' = [hc EXCEPT ![c] = IF Registered(c) THEN "finally" ELSE "done"]
    /\ UNCHANGED <<connections, connection_count, conn_data, next_id, ws_open, tasks,
                   last_frame>>

\* handle_connection ends when its remove_connection call does
EndOfHandler(c) == [hc EXCEPT ![c] = IF @ = "finally" THEN "done" ELSE @]

\* close() returns: the entry is deleted and the count decremented
CloseReturns(c) ==
    /\ UNCHANGED <<apvars, pbvars, whvars>>
    /\ rm[c] = "closing"
    /\ riva_client' = [riva_client EXCEPT ![c].closed = TRUE, ![c].connected = FALSE]
    /\ connections' = connections \ {c}
    /\ connection_count' = connection_count - 1
    /\ rm' = [rm EXCEPT ![c] = "returned"]
    /\ hc' = EndOfHandler(c)
    /\ ws_open' = [ws_open EXCEPT ![c] = FALSE]
    /\ UNCHANGED <<conn_data, next_id, tasks, sent, last_frame, remove_calls>>

\* close() raises: the exception leaves remove_connection (and handle_connection)
\* before the entry is deleted
CloseRaises(c) ==
    /\ UNCHANGED <<apvars, pbvars, whvars>>
    /\ rm[c] = "closing"
    /\ rm' = [rm EXCEPT ![c] = "raised"]
    /\ hc' = EndOfHandler(c)
    /\ ws_open' = [ws_open EXCEPT ![c] = FALSE]
    /\ UNCHANGED <<connections, connection_count, conn_data, riva_client, next_id,
                   tasks, sent, last_frame, remove_calls>>

(* ------------------------------ the worker ----------------------------- *)

Runnable(c, k) == k \in 1..Len(tasks[c]) /\ ~tasks[c][k].cancel

RECURSIVE SumYielded(_, _)
SumYielded(ts, i) == IF i = 0 THEN 0 ELSE ts[i].yielded + SumYielded(ts, i - 1)

RECURSIVE TotalYielded(_)
TotalYielded(c) ==
    IF c = 0 THEN 0 ELSE SumYielded(tasks[c], Len(tasks[c])) + TotalYielded(c - 1)

\* _transcription_worker from its first step to the stream_transcribe call
WorkerStart(c, k) ==
    /\ UNCHANGED <<apvars, pbvars, whvars>>
    /\ Runnable(c, k)
    /\ tasks[c][k].pc = "new"
    /\ tasks' = [tasks EXCEPT ![c][k].pc = IF c \in connections THEN "stream" ELSE "done"]
    /\ UNCHANGED <<connections, connection_count, conn_data, riva_client, next_id, hc,
                   ws_open, sent, last_frame, remove_calls, rm>>

QueueGetNewest(q) == [chunk |-> Last(q), rest |-> SubSeq(q, 1, Len(q) - 1)]

\* audio_queue.get(): the oldest chunk and the rest
QueueGet(q) == [chunk |-> Head(q), rest |-> Tail(q)]

\* stream_transcribe asks audio_generator for the next chunk: the generator ends
\* when session_active is false, else it yields the chunk it gets from the queue
WorkerPull(c, k) ==
    /\ UNCHANGED <<apvars, pbvars, whvars>>
    /\ Runnable(c, k)
    /\ tasks[c][k].pc = "stream"
    /\ IF ~conn_data[c].session_active
       THEN tasks' = [tasks EXCEPT ![c][k].pc = "done"]
       ELSE /\ tasks[c][k].queue # <<>>
            /\ LET g == QueueGet(tasks[c][k].queue) IN
               tasks' = [tasks EXCEPT ![c][k].queue = g.rest,
                                      ![c][k].handed = Append(@, g.chunk)]
    /\ UNCHANGED <<connections, connection_count, conn_data, riva_client, next_id, hc,
                   ws_open, sent, last_frame, remove_calls, rm>>

\* wait_for(audio_queue.get(), timeout=1.0) times out on an empty queue and the
\* generator polls again
WorkerGetTimeout(c, k) ==
    /\ Runnable(c, k)
    /\ tasks[c][k].pc = "stream"
    /\ conn_data[c].session_active
    /\ tasks[c][k].queue = <<>>
    /\ UNCHANGED vars

\* stream_transcribe yields an event; the worker is at "await _send_message(event)"
ServiceYields(c, k) ==
    /\ UNCHANGED <<apvars, pbvars, whvars>>
    /\ Runnable(c, k)
    /\ tasks[c][k].pc = "stream"
    /\ TotalYielded(MaxConns) < MaxEvents
    /\ \E type \in {"partial", "transcription"} :
        tasks' = [tasks EXCEPT ![c][k].pc = "send",
                               ![c][k].yielded = @ + 1,
                               ![c][k].event = type]
    /\ UNCHANGED <<connections, connection_count, conn_data, riva_client, next_id, hc,
                   ws_open, sent, last_frame, remove_calls, rm>>

\* the send completes and the worker counts the event
WorkerSends(c, k) ==
    /\ UNCHANGED <<apvars, pbvars, whvars>>
    /\ Runnable(c, k)
    /\ tasks[c][k].pc = "send"
    /\ sent' = [sent EXCEPT ![c] =
                  SendTo(@, ws_open[c], Msg(tasks[c][k].event, "", k, tasks[c][k].yielded))]
    /\ conn_data' = [conn_data EXCEPT ![c].total_transcriptions = @ + 1]
    /\ tasks' = [tasks EXCEPT ![c][k].pc = "stream", ![c][k].event = "none"]
    /\ UNCHANGED <<connections, connection_count, riva_client, next_id, hc, ws_open,
                   last_frame, remove_calls, rm>>

\* stream_transcribe raises: the worker reports the error and returns
ServiceFails(c, k) ==
    /\ UNCHANGED <<apvars, pbvars, whvars>>
    /\ Runnable(c, k)
    /\ tasks[c][k].pc = "stream"
    /\ sent' = [sent EXCEPT ![c] =
                  SendTo(@, ws_open[c], Msg("error", "transcription_error", k, 0))]
    /\ tasks' = [tasks EXCEPT ![c][k].pc = "done"]
    /\ UNCHANGED <<connections, connection_count, conn_data, riva_client, next_id, hc,
                   ws_open, last_frame, remove_calls, rm>>

\* CancelledError is thrown into the worker at its await; no handler of the worker
\* catches it (it is no Exception).  A send it interrupts may or may not have
\* reached the transport.
WorkerCancelled(c, k) ==
    /\ UNCHANGED <<apvars, pbvars, whvars>>
    /\ k \in 1..Len(tasks[c])
    /\ tasks[c][k].cancel
    /\ tasks[c][k].pc # "done"
    /\ \/ UNCHANGED sent
       \/ /\ tasks[c][k].pc = "send"
          /\ ws_open[c]
          /\ sent' = [sent EXCEPT ![c] =
                        Append(@, Msg(tasks[c][k].event, "", k, tasks[c][k].yielded))]
    /\ tasks' = [tasks EXCEPT ![c][k].pc = "done", ![c][k].event = "none"]
    /\ UNCHANGED <<connections, connection_count, conn_data, riva_client, next_id, hc,
                   ws_open, last_frame, remove_calls, rm>>

(***************************************************************************)
(* WebSocketHandler and TranscriptionStream                                *)
(*                                                                         *)
(* handle_websocket serves one client in one task: every handler runs to   *)
(* its end, transcription included, before the next frame is read.  A text *)
(* is the sequence of its words.  Durations are counted in samples.  The   *)
(* Riva client behind transcribe_segment is an external collaborator: each *)
(* call has one of the outcomes below.                                     *)
(***************************************************************************)
Client == 1
\* the client_id of a second connection
Peer == 2

NoText == <<>>
\* the words the service recognises in the audio of segment id
SomeText(id) == <<id>>

Outcomes == {"connect_refused", "connect_raises", "stream_raises", "event_then_raises",
             "no_event", "event_empty", "event_text"}

NewTranscriptionStream ==
    [connected |-> FALSE, segment_id |-> 0, partial_transcript |-> NoText,
     final_transcripts |-> <<>>, current_time_offset |-> 0]

\* the rate of the audio the handler passes to process_chunk, in kHz
SourceRate == 16
\* vad_threshold of a new AudioProcessor, in thousandths
DefaultThreshold == 20

\* the attributes of a new AudioProcessor that _configure_stream can write, the
\* silence duration counted in chunk durations
NewSettings ==
    [target_sample_rate |-> SourceRate, vad_threshold |-> DefaultThreshold,
     silence_duration_s |-> silence_chunks]

\* values a client sends with configure
LowThreshold == 10
ShortSilence == 1

ConfigKeys == {"sample_rate", "vad_threshold", "silence_duration"}

\* the config dictionaries of the configure messages: any of the keys, with the
\* rate the handler assumes for its input
Configs ==
    { [keys |-> k, sample_rate |-> SourceRate, vad_threshold |-> LowThreshold,
       silence_duration |-> ShortSilence] : k \in SUBSET ConfigKeys }

NewState ==
    [present |-> TRUE, audio_processor |-> NewAudioProcessor,
     settings |-> NewSettings,
     transcription_stream |-> NewTranscriptionStream,
     total_audio_duration |-> 0, total_segments |-> 0, is_recording |-> FALSE]

NoState == [NewState EXCEPT !.present = FALSE]

\* the segment_id of a message that has no segment_id key
NoSegmentId == -1

WhMsg(type, segment_id, text, sess) ==
    [type |-> type, segment_id |-> segment_id, text |-> text, sess |-> sess,
     total_segments |-> 0, total_duration |-> 0]

\* _error_result
_error_result(ts) == [type |-> "error", segment_id |-> ts.segment_id, text |-> NoText]

\* the segment counter after a final result with text
NextSegmentId(id) == id + 1

\* transcribe_segment on a segment of n samples: the stream afterwards and the result
transcribe_segment(ts, n, is_final, outcome) ==
    IF ~ts.connected /\ outcome \in {"connect_refused", "connect_raises"}
    THEN [ts |-> ts, result |-> _error_result(ts)]
    ELSE
    LET ts1 == [ts EXCEPT !.connected = TRUE] IN
    IF outcome = "stream_raises"
    THEN [ts |-> ts1, result |-> _error_result(ts1)]
    ELSE IF outcome = "event_then_raises"
    THEN LET ts2 == IF is_final THEN ts1 ELSE [ts1 EXCEPT !.partial_transcript = SomeText(ts1.segment_id)]
         IN  [ts |-> ts2, result |-> _error_result(ts2)]
    ELSE
    LET text == IF outcome = "event_text" THEN SomeText(ts1.segment_id) ELSE NoText
        type == IF outcome = "no_event" \/ is_final THEN "transcription" ELSE "partial"
        result == [type |-> type, segment_id |-> ts1.segment_id, text |-> text]
        ts2 == IF is_final /\ text # NoText
               THEN [ts1 EXCEPT !.final_transcripts = Append(@, text),
                                !.current_time_offset = @ + n,
                                !.segment_id = NextSegmentId(@)]
               ELSE IF ~is_final
               THEN [ts1 EXCEPT !.partial_transcript = text]
               ELSE ts1
    IN  [ts |-> ts2, result |-> result]

\* transcribe_segment returns _error_result
Fails(ts, is_final, outcome) == transcribe_segment(ts, 0, is_final, outcome).result.type = "error"

\* an outcome the stream can have in its present state
Possible(ts, outcome) == outcome \in {"connect_refused", "connect_raises"} => ~ts.connected

RECURSIVE Join(_)
Join(texts) == IF texts = <<>> THEN <<>> ELSE Head(texts) \o Join(Tail(texts))

FinalTranscriptsOnly(ts) == Join(ts.final_transcripts)

\* get_full_transcript
get_full_transcript(ts) == Join(ts.final_transcripts) \o ts.partial_transcript

\* TranscriptionStream.reset
ResetStream(ts) ==
    [ts EXCEPT !.segment_id = 0, !.partial_transcript = NoText,
               !.final_transcripts = <<>>, !.current_time_offset = 0]

\* a frame: what it is, whether its bytes are no whole number of samples, and the
\* handler that ended up with it
Frame(kind, malformed, routed) == [kind |-> kind, malformed |-> malformed, routed |-> routed]

NoFrame == Frame("none", FALSE, "none")

\* the audio of a session so far: frames, samples, and whether all were voiced
NoAudio == [chunks |-> 0, samples |-> 0, voiced |-> TRUE, segments |-> 0, duration |-> 0,
            failed |-> FALSE]

\* a transcribe_segment call: the frame that caused it, the samples handed over
Submission(n, is_final) ==
    [frame |-> wh_frames + 1, n |-> n, is_final |-> is_final, sess |-> wh_session]

InitWSH ==
    /\ wh_pc = "idle"
    /\ active_connections = {}
    /\ connection_states = NoState
    /\ wh_sent = <<>>
    /\ wh_frames = 0
    /\ wh_session = 0
    /\ wh_last = NoFrame
    /\ wh_submitted = <<>>
    /\ wh_audio = NoAudio
    /\ peer_states = NoState

\* handle_websocket up to its read loop
WhConnect ==
    /\ UNCHANGED <<apvars, pbvars, brvars, peer_states>>
    /\ wh_pc = "idle"
    /\ wh_pc' = "loop"
    /\ active_connections' = active_connections \cup {Client}
    /\ connection_states' = NewState
    /\ wh_sent' = Append(wh_sent, WhMsg("connection", NoSegmentId, NoText, wh_session))
    /\ UNCHANGED <<wh_frames, wh_session, wh_last, wh_submitted, wh_audio>>

\* websocket.receive() delivers the next frame
WhReceives ==
    /\ wh_pc = "loop"
    /\ wh_frames < MaxWhFrames
    /\ wh_frames' = wh_frames + 1

\* the connection state after _start_recording
_start_recording(st) ==
    [st EXCEPT !.audio_processor = reset(@),
               !.transcription_stream = ResetStream(@),
               !.is_recording = TRUE]

\* _start_recording
WhStartRecording ==
    /\ UNCHANGED <<apvars, pbvars, brvars, peer_states>>
    /\ WhReceives
    /\ connection_states.present
    /\ connection_states' = _start_recording(connection_states)
    /\ wh_session' = wh_session + 1
    /\ wh_sent' = Append(wh_sent, WhMsg("recording_started", NoSegmentId, NoText, wh_session + 1))
    /\ wh_last' = Frame("start_recording", FALSE, "control")
    /\ wh_audio' = NoAudio
    /\ UNCHANGED <<wh_pc, active_connections, wh_submitted>>

RecordingUnchecked(st) == st.present

\* the test _handle_audio_data makes before it touches the audio
Recording(st) == st.present /\ st.is_recording

\* the pending buffer is long enough for an interim transcription (> 16000 samples)
LongPending(p) == Len(p.current_segment) > PartialSamples

\* whether _handle_audio_data reaches a transcribe_segment call
Calls(st, r, g) ==
    /\ Recording(st)
    /\ ~r.raised
    /\ IF r.is_end THEN g.segment.some ELSE LongPending(r.proc)

\* the body of _handle_audio_data for one frame and one outcome of the backend call
AudioHandler(chunk, outcome) ==
    LET st == connection_states
        r == process_chunk(st.audio_processor, chunk)
        g == get_segment(r.proc)
        ts == st.transcription_stream
    IN
    /\ Possible(ts, outcome)
    /\ Calls(st, r, g) \/ outcome = "no_event"
    /\ r.proc.silence_counter <= MaxSilenceCounter
    /\ wh_audio' = IF Recording(st) /\ ~r.raised
                   THEN [chunks |-> wh_audio.chunks + 1,
                         samples |-> wh_audio.samples + NumSamples(chunk),
                         voiced |-> wh_audio.voiced /\ _detect_voice_activity(chunk),
                         segments |-> IF r.is_end /\ g.segment.some
                                      THEN wh_audio.segments + 1
                                      ELSE wh_audio.segments,
                         duration |-> IF r.is_end /\ g.segment.some
                                      THEN wh_audio.duration + Len(g.segment.samples)
                                      ELSE wh_audio.duration,
                         failed |-> Calls(st, r, g) /\ Fails(ts, r.is_end, outcome)]
                   ELSE wh_audio
    /\ IF ~Recording(st)
       THEN UNCHANGED <<connection_states, wh_sent, wh_submitted>>
       ELSE IF r.raised
       THEN /\ wh_sent' = Append(wh_sent, WhMsg("error", NoSegmentId, NoText, wh_session))
            /\ UNCHANGED <<connection_states, wh_submitted>>
       ELSE IF r.is_end
       THEN IF g.segment.some
            THEN LET t == transcribe_segment(ts, Len(g.segment.samples), TRUE, outcome) IN
                 /\ wh_submitted' = Append(wh_submitted,
                                           Submission(Len(g.segment.samples), TRUE))
                 /\ wh_sent' = Append(wh_sent,
                                  WhMsg(t.result.type, t.result.segment_id,
                                        t.result.text, wh_session))
                 /\ connection_states' =
                      [st EXCEPT !.audio_processor = g.proc,
                                 !.transcription_stream = t.ts,
                                 !.total_segments = @ + 1,
                                 !.total_audio_duration = @ + Len(g.segment.samples)]
            ELSE /\ connection_states' = [st EXCEPT !.audio_processor = g.proc]
                 /\ UNCHANGED <<wh_sent, wh_submitted>>
       ELSE IF LongPending(r.proc)
       THEN LET t == transcribe_segment(ts, Len(r.proc.current_segment), FALSE, outcome) IN
            /\ wh_submitted' = Append(wh_submitted,
                                      Submission(Len(r.proc.current_segment), FALSE))
            /\ wh_sent' = Append(wh_sent,
                             WhMsg("partial", t.result.segment_id, t.result.text,
                                   wh_session))
            /\ connection_states' =
                 [st EXCEPT !.audio_processor = r.proc, !.transcription_stream = t.ts]
       ELSE /\ connection_states' = [st EXCEPT !.audio_processor = r.proc]
            /\ UNCHANGED <<wh_sent, wh_submitted>>

\* a binary frame that does not start with "{": _handle_audio_data, the backend
\* call, if one is made, having one of the outcomes
WhAudioOf(chunks, outcomes) ==
    /\ UNCHANGED <<apvars, pbvars, brvars, peer_states>>
    /\ WhReceives
    /\ \E chunk \in chunks, outcome \in outcomes :
        /\ AudioHandler(chunk, outcome)
        /\ wh_last' = Frame("audio", DecodeError(chunk), "audio")
    /\ UNCHANGED <<wh_pc, active_connections, wh_session>>

WhAudioFrom(outcomes) == WhAudioOf(Chunks, outcomes)

WhAudioData == WhAudioFrom(Outcomes)

\* the outcomes of a backend that is reachable and does not fail
ServiceAnswers == {"no_event", "event_text"}

\* an audio frame handled while the backend answers
WhAudioAnswered == WhAudioFrom(ServiceAnswers)

\* the chunks in which voice is detected
VoicedChunks == {chunk \in Chunks : _detect_voice_activity(chunk)}

\* a frame of speech handled while the backend answers
WhVoicedAudio == WhAudioOf(VoicedChunks, ServiceAnswers)

\* the ways the structured decoding of a binary frame that starts with "{" fails
DecodingFailures == {"not_utf8", "not_json"}

\* a binary frame that starts with "{" and is no JSON text: _handle_control_message
\* hands bytes that are no UTF-8 to _handle_audio_data, and answers UTF-8 text that
\* is no JSON with an error
WhBraceBytes ==
    /\ UNCHANGED <<apvars, pbvars, brvars, peer_states>>
    /\ WhReceives
    /\ \E chunk \in Chunks, failure \in DecodingFailures, outcome \in Outcomes :
        /\ chunk.nbytes >= 1
        /\ IF failure = "not_utf8"
           THEN /\ AudioHandler(chunk, outcome)
                /\ wh_last' = Frame(failure, DecodeError(chunk), "audio")
           ELSE /\ outcome = "no_event"
                /\ wh_sent' = Append(wh_sent,
                                     WhMsg("error", NoSegmentId, NoText, wh_session))
                /\ wh_last' = Frame(failure, DecodeError(chunk), "none")
                /\ UNCHANGED <<connection_states, wh_submitted, wh_audio>>
    /\ UNCHANGED <<wh_pc, active_connections, wh_session>>

\* _stop_recording
WhStopRecording ==
    /\ UNCHANGED <<apvars, pbvars, brvars, peer_states>>
    /\ WhReceives
    /\ connection_states.present
    /\ \E outcome \in Outcomes :
        LET st == connection_states
            g == get_segment(st.audio_processor)
            ts == st.transcription_stream
            t == IF g.segment.some
                 THEN transcribe_segment(ts, Len(g.segment.samples), TRUE, outcome)
                 ELSE [ts |-> ts, result |-> _error_result(ts)]
            flushed == IF g.segment.some
                       THEN Append(wh_sent, WhMsg(t.result.type, t.result.segment_id,
                                                  t.result.text, wh_session))
                       ELSE wh_sent
        IN
        /\ Possible(ts, outcome)
        /\ ~g.segment.some => outcome = "no_event"
        /\ connection_states' =
             [st EXCEPT !.is_recording = FALSE, !.audio_processor = g.proc,
                        !.transcription_stream = t.ts]
        /\ wh_submitted' = IF g.segment.some
                           THEN Append(wh_submitted, Submission(Len(g.segment.samples), TRUE))
                           ELSE wh_submitted
        /\ wh_sent' = Append(flushed,
                        [WhMsg("recording_stopped", NoSegmentId, get_full_transcript(t.ts),
                               wh_session)
                           EXCEPT !.total_segments = st.total_segments,
                                  !.total_duration = st.total_audio_duration])
        /\ wh_audio' = [wh_audio EXCEPT !.failed = g.segment.some /\ Fails(ts, TRUE, outcome)]
    /\ wh_last' = Frame("stop_recording", FALSE, "control")
    /\ UNCHANGED <<wh_pc, active_connections, wh_session>>

\* the attributes of the processor after the keys of config are written to them
ApplyConfig(settings, config) ==
    [target_sample_rate |->
         IF "sample_rate" \in config.keys THEN config.sample_rate
         ELSE settings.target_sample_rate,
     vad_threshold |->
         IF "vad_threshold" \in config.keys THEN config.vad_threshold
         ELSE settings.vad_threshold,
     silence_duration_s |->
         IF "silence_duration" \in config.keys THEN config.silence_duration
         ELSE settings.silence_duration_s]

ConfigureAndReset(st, config) ==
    [st EXCEPT !.settings = ApplyConfig(@, config), !.audio_processor = reset(@)]

\* the connection state after _configure_stream
_configure_stream(st, config) == [st EXCEPT !.settings = ApplyConfig(@, config)]

\* _configure_stream: the keys of the message are written to the attributes of the
\* processor; the sizes derived from them in __init__ are not computed again
WhConfigure ==
    /\ UNCHANGED <<apvars, pbvars, brvars, peer_states>>
    /\ WhReceives
    /\ connection_states.present
    /\ \E config \in Configs :
        connection_states' = _configure_stream(connection_states, config)
    /\ wh_sent' = Append(wh_sent, WhMsg("configured", NoSegmentId, NoText, wh_session))
    /\ wh_last' = Frame("configure", FALSE, "control")
    /\ UNCHANGED <<wh_pc, active_connections, wh_session, wh_submitted, wh_audio>>

\* _handle_control_message for ping
WhPing ==
    /\ UNCHANGED <<apvars, pbvars, brvars, peer_states>>
    /\ WhReceives
    /\ wh_sent' = Append(wh_sent, WhMsg("pong", NoSegmentId, NoText, wh_session))
    /\ wh_last' = Frame("ping", FALSE, "control")
    /\ UNCHANGED <<wh_pc, active_connections, connection_states, wh_session,
                   wh_submitted, wh_audio>>

\* what send_message leaves of active_connections when websocket.send_json raises:
\* the entry of the websocket is deleted, and the exception is swallowed
SendFailed(active, c) == active \ {c}

\* _handle_control_message for ping when the pong cannot be sent
WhPingUndelivered ==
    /\ UNCHANGED <<apvars, pbvars, brvars, peer_states>>
    /\ WhReceives
    /\ active_connections' = SendFailed(active_connections, Client)
    /\ wh_last' = Frame("ping", FALSE, "control")
    /\ UNCHANGED <<wh_pc, connection_states, wh_sent, wh_session, wh_submitted, wh_audio>>

\* _handle_control_message for a type it has no branch for: a warning is logged
WhUnknownType ==
    /\ UNCHANGED <<apvars, pbvars, brvars, peer_states>>
    /\ WhReceives
    /\ wh_last' = Frame("unknown", FALSE, "control")
    /\ UNCHANGED <<wh_pc, active_connections, connection_states, wh_sent, wh_session,
                   wh_submitted, wh_audio>>

\* what disconnect leaves of a connection state: the entry is deleted, and the
\* backend client of its TranscriptionStream, which nothing closes, is as it was
disconnect(st) ==
    [NoState EXCEPT !.transcription_stream.connected = st.transcription_stream.connected]

\* the read loop ends (a disconnect message or an exception) and disconnect() runs
WhDisconnect ==
    /\ UNCHANGED <<apvars, pbvars, brvars, peer_states>>
    /\ wh_pc = "loop"
    /\ wh_pc' = "done"
    /\ active_connections' = active_connections \ {Client}
    /\ connection_states' = disconnect(connection_states)
    /\ UNCHANGED <<wh_sent, wh_frames, wh_session, wh_last, wh_submitted, wh_audio>>

(* the second client sends control messages only; the messages sent to it are    *)
(* not recorded                                                                *)

\* handle_websocket of the second client up to its read loop
PeerConnect ==
    /\ Peer \notin active_connections
    /\ active_connections' = active_connections \cup {Peer}
    /\ peer_states' = NewState
    /\ UNCHANGED <<apvars, pbvars, brvars, wh_pc, connection_states, wh_sent, wh_frames,
                   wh_session, wh_last, wh_submitted, wh_audio>>

\* _start_recording for the second client
PeerStartRecording ==
    /\ peer_states.present
    /\ peer_states' = _start_recording(peer_states)
    /\ UNCHANGED <<apvars, pbvars, brvars, wh_pc, active_connections, connection_states,
                   wh_sent, wh_frames, wh_session, wh_last, wh_submitted, wh_audio>>

\* _stop_recording for the second client, which has no audio pending
PeerStopRecording ==
    /\ peer_states.present
    /\ ~get_segment(peer_states.audio_processor).segment.some
    /\ peer_states' =
         [peer_states EXCEPT !.is_recording = FALSE,
                             !.audio_processor = get_segment(@).proc]
    /\ UNCHANGED <<apvars, pbvars, brvars, wh_pc, active_connections, connection_states,
                   wh_sent, wh_frames, wh_session, wh_last, wh_submitted, wh_audio>>

\* the read loop of the second client ends and disconnect() runs
PeerDisconnect ==
    /\ Peer \in active_connections
    /\ active_connections' = active_connections \ {Peer}
    /\ peer_states' = NoState
    /\ UNCHANGED <<apvars, pbvars, brvars, wh_pc, connection_states, wh_sent, wh_frames,
                   wh_session, wh_last, wh_submitted, wh_audio>>

(***************************************************************************)
(* The prototype bridge, src/riva_websocket_bridge.py                      *)
(*                                                                         *)
(* handle_websocket runs once per client; active_streams maps the client   *)
(* id to the dict start_streaming_session stores.  The handlers touch      *)
(* active_streams before their first await, so the handling of a message   *)
(* is one step.                                                            *)
(***************************************************************************)
\* the clients of the prototype bridge
PbClients == {1, 2}
\* messages a client of the prototype bridge sends
MaxPbFrames == 2

InitPrototype ==
    /\ active_streams = {}
    /\ pb_pc = [c \in PbClients |-> "idle"]
    /\ pb_frames = [c \in PbClients |-> 0]
    /\ pb_last = [c \in PbClients |-> "none"]

\* handle_websocket up to its message loop
PbConnect(c) ==
    /\ pb_pc[c] = "idle"
    /\ pb_pc' = [pb_pc EXCEPT ![c] = "loop"]
    /\ pb_last' = [pb_last EXCEPT ![c] = "status"]
    /\ UNCHANGED <<active_streams, pb_frames>>
    /\ UNCHANGED <<apvars, brvars, whvars>>

\* the message loop delivers the next message of the client
PbReceives(c) ==
    /\ pb_pc[c] = "loop"
    /\ pb_frames[c] < MaxPbFrames
    /\ pb_frames' = [pb_frames EXCEPT ![c] = @ + 1]

\* start_streaming_session
PbStartRecording(c) ==
    /\ PbReceives(c)
    /\ active_streams' = active_streams \cup {c}
    /\ pb_last' = [pb_last EXCEPT ![c] = "status"]
    /\ UNCHANGED pb_pc
    /\ UNCHANGED <<apvars, brvars, whvars>>

\* stop_streaming_session
PbStopRecording(c) ==
    /\ PbReceives(c)
    /\ active_streams' = active_streams \ {c}
    /\ UNCHANGED <<pb_pc, pb_last>>
    /\ UNCHANGED <<apvars, brvars, whvars>>

\* handle_audio_data: a partial result, and a final one when the length of the
\* frame is a multiple of 5
PbAudioData(c) ==
    /\ PbReceives(c)
    /\ \E multiple_of_5 \in BOOLEAN :
          pb_last' = IF c \notin active_streams THEN pb_last
                     ELSE [pb_last EXCEPT ![c] = IF multiple_of_5 THEN "transcription"
                                                 ELSE "partial"]
    /\ UNCHANGED <<active_streams, pb_pc>>
    /\ UNCHANGED <<apvars, brvars, whvars>>

\* the teardown of a client: what the finally block of handle_websocket leaves of
\* active_streams and how it ends.  The entry is a dict, so calling cancel() on it
\* raises AttributeError before the del is reached
Teardown(streams, c) ==
    IF c \in streams
    THEN [streams |-> streams, ends |-> "raised"]
    ELSE [streams |-> streams, ends |-> "done"]

\* the connection ends (closed by the client, or an exception in the loop) and the
\* finally block of handle_websocket runs
PbConnectionEnds(c) ==
    /\ pb_pc[c] = "loop"
    /\ LET t == Teardown(active_streams, c) IN
        /\ active_streams' = t.streams
        /\ pb_pc' = [pb_pc EXCEPT ![c] = t.ends]
    /\ UNCHANGED <<pb_frames, pb_last>>
    /\ UNCHANGED <<apvars, brvars, whvars>>

NextPrototype ==
    \/ \E c \in PbClients : PbConnect(c)
    \/ \E c \in PbClients : PbStartRecording(c)
    \/ \E c \in PbClients : PbStopRecording(c)
    \/ \E c \in PbClients : PbAudioData(c)
    \/ \E c \in PbClients : PbConnectionEnds(c)

NextWSH ==
    \/ WhConnect
    \/ WhStartRecording
    \/ WhAudioData
    \/ WhStopRecording
    \/ WhDisconnect

\* a client whose binary frames all start with "{"
NextRouting ==
    \/ WhConnect
    \/ WhStartRecording
    \/ WhBraceBytes
    \/ WhStopRecording
    \/ WhDisconnect

\* a client that also sends configure, the backend answering every call
NextConfigure ==
    \/ WhConnect
    \/ WhStartRecording
    \/ WhAudioAnswered
    \/ WhStopRecording
    \/ WhConfigure
    \/ WhDisconnect

\* a client that sends control messages only, ping and other types included
NextControl ==
    \/ WhConnect
    \/ WhStartRecording
    \/ WhStopRecording
    \/ WhPing
    \/ WhUnknownType
    \/ WhDisconnect

(* ------------------------------ ConnectionManager alone ---------------- *)

\* a caller adds a connection
MgrAddConnection(c) ==
    /\ UNCHANGED <<apvars, pbvars, whvars>>
    /\ c = next_id
    /\ next_id' = next_id + 1
    /\ add_connection(c)
    /\ UNCHANGED <<hc, ws_open, tasks, sent, last_frame, remove_calls, rm>>

\* a caller removes an id that was issued; calls for one id follow one another
MgrRemoveConnection(c) ==
    /\ UNCHANGED <<apvars, pbvars, whvars>>
    /\ c < next_id
    /\ rm[c] # "closing"
    /\ remove_calls[c] < MaxRemoveCalls
    /\ remove_connection(c)
    /\ UNCHANGED <<connections, connection_count, conn_data, next_id, hc, ws_open,
                   tasks, sent, last_frame>>

NextManager ==
    \/ \E c \in ConnIds : MgrAddConnection(c)
    \/ \E c \in ConnIds : MgrRemoveConnection(c)
    \/ \E c \in ConnIds : CloseReturns(c)
    \/ \E c \in ConnIds : CloseRaises(c)

Sessions == 1..MaxFrames

NextBridge ==
    \/ \E c \in BridgeConns : HandleConnection(c)
    \/ \E c \in BridgeConns : StartTranscription(c)
    \/ \E c \in BridgeConns : StopTranscription(c)
    \/ \E c \in BridgeConns : StopFinish(c)
    \/ \E c \in BridgeConns : HandleAudioData(c)
    \/ \E c \in BridgeConns : HandleOtherMessage(c)
    \/ \E c \in BridgeConns : ClientDisconnect(c)
    \/ \E c \in BridgeConns : LoopEnds(c)
    \/ \E c \in BridgeConns : CloseReturns(c)
    \/ \E c \in BridgeConns : CloseRaises(c)
    \/ \E c \in BridgeConns, k \in Sessions : WorkerStart(c, k)
    \/ \E c \in BridgeConns, k \in Sessions : WorkerPull(c, k)
    \/ \E c \in BridgeConns, k \in Sessions : WorkerGetTimeout(c, k)
    \/ \E c \in BridgeConns, k \in Sessions : ServiceYields(c, k)
    \/ \E c \in BridgeConns, k \in Sessions : WorkerSends(c, k)
    \/ \E c \in BridgeConns, k \in Sessions : ServiceFails(c, k)
    \/ \E c \in BridgeConns, k \in Sessions : WorkerCancelled(c, k)

Init == InitAP /\ InitBridge /\ InitWSH /\ InitPrototype

SpecAP == Init /\ [][NextAP]_vars

SpecPrototype == Init /\ [][NextPrototype]_vars

SpecBridge == Init /\ [][NextBridge]_vars

SpecWSH == Init /\ [][NextWSH]_vars

SpecManager == Init /\ [][NextManager]_vars

SpecRouting == Init /\ [][NextRouting]_vars

SpecControl == Init /\ [][NextControl]_vars

\* the handler with control messages only, a pong that may fail to be sent, and
\* a second client
NextRegistries ==
    \/ WhConnect
    \/ WhStartRecording
    \/ WhStopRecording
    \/ WhPing
    \/ WhPingUndelivered
    \/ WhDisconnect
    \/ PeerConnect
    \/ PeerStartRecording
    \/ PeerStopRecording
    \/ PeerDisconnect

SpecRegistries == Init /\ [][NextRegistries]_vars

\* a deployment runs one of the two servers.  The bridge, with a service that
\* yields no event and does not fail, while no client has reached the handler; or
\* the handler, with a backend that answers every call, while no client has
\* reached the bridge
NextServers ==
    \/ \E c \in BridgeConns : InitWSH /\ HandleConnection(c)
    \/ \E c \in BridgeConns : InitWSH /\ StartTranscription(c)
    \/ \E c \in BridgeConns : InitWSH /\ StopTranscription(c)
    \/ \E c \in BridgeConns : InitWSH /\ StopFinish(c)
    \/ \E c \in BridgeConns : InitWSH /\ HandleAudioData(c)
    \/ \E c \in BridgeConns : InitWSH /\ ClientDisconnect(c)
    \/ \E c \in BridgeConns : InitWSH /\ LoopEnds(c)
    \/ \E c \in BridgeConns : InitWSH /\ CloseReturns(c)
    \/ \E c \in BridgeConns : InitWSH /\ CloseRaises(c)
    \/ \E c \in BridgeConns, k \in Sessions : InitWSH /\ WorkerStart(c, k)
    \/ \E c \in BridgeConns, k \in Sessions : InitWSH /\ WorkerPull(c, k)
    \/ \E c \in BridgeConns, k \in Sessions : InitWSH /\ WorkerCancelled(c, k)
    \/ InitBridge /\ WhConnect
    \/ InitBridge /\ WhStartRecording
    \/ InitBridge /\ WhAudioAnswered
    \/ InitBridge /\ WhStopRecording
    \/ InitBridge /\ WhDisconnect

SpecServers == Init /\ [][NextServers]_vars

\* two clients at once, of the bridge with a service that yields no event, or of
\* the handler with a backend that answers every call and a first client that
\* sends speech
NextPair ==
    \/ \E c \in PairConns : InitWSH /\ HandleConnection(c)
    \/ \E c \in PairConns : InitWSH /\ StartTranscription(c)
    \/ \E c \in PairConns : InitWSH /\ StopTranscription(c)
    \/ \E c \in PairConns : InitWSH /\ StopFinish(c)
    \/ \E c \in PairConns : InitWSH /\ HandleAudioData(c)
    \/ \E c \in PairConns : InitWSH /\ ClientDisconnect(c)
    \/ \E c \in PairConns : InitWSH /\ LoopEnds(c)
    \/ \E c \in PairConns : InitWSH /\ CloseReturns(c)
    \/ \E c \in PairConns : InitWSH /\ CloseRaises(c)
    \/ \E c \in PairConns, k \in Sessions : InitWSH /\ WorkerStart(c, k)
    \/ \E c \in PairConns, k \in Sessions : InitWSH /\ WorkerPull(c, k)
    \/ \E c \in PairConns, k \in Sessions : InitWSH /\ WorkerCancelled(c, k)
    \/ InitBridge /\ WhConnect
    \/ InitBridge /\ WhStartRecording
    \/ InitBridge /\ WhVoicedAudio
    \/ InitBridge /\ WhStopRecording
    \/ InitBridge /\ WhDisconnect
    \/ InitBridge /\ PeerConnect
    \/ InitBridge /\ PeerStartRecording
    \/ InitBridge /\ PeerStopRecording
    \/ InitBridge /\ PeerDisconnect

SpecPair == Init /\ [][NextPair]_vars

\* either server with a client that also sends ping, the service yielding no event
NextKeepAlive ==
    \/ \E c \in BridgeConns : InitWSH /\ HandleConnection(c)
    \/ \E c \in BridgeConns : InitWSH /\ StartTranscription(c)
    \/ \E c \in BridgeConns : InitWSH /\ StopTranscription(c)
    \/ \E c \in BridgeConns : InitWSH /\ StopFinish(c)
    \/ \E c \in BridgeConns : InitWSH /\ HandleAudioData(c)
    \/ \E c \in BridgeConns : InitWSH /\ HandlePing(c)
    \/ \E c \in BridgeConns : InitWSH /\ ClientDisconnect(c)
    \/ \E c \in BridgeConns : InitWSH /\ LoopEnds(c)
    \/ \E c \in BridgeConns : InitWSH /\ CloseReturns(c)
    \/ \E c \in BridgeConns : InitWSH /\ CloseRaises(c)
    \/ \E c \in BridgeConns, k \in Sessions : InitWSH /\ WorkerStart(c, k)
    \/ \E c \in BridgeConns, k \in Sessions : InitWSH /\ WorkerPull(c, k)
    \/ \E c \in BridgeConns, k \in Sessions : InitWSH /\ WorkerCancelled(c, k)
    \/ InitBridge /\ WhConnect
    \/ InitBridge /\ WhStartRecording
    \/ InitBridge /\ WhAudioAnswered
    \/ InitBridge /\ WhStopRecording
    \/ InitBridge /\ WhPing
    \/ InitBridge /\ WhDisconnect

\* the event loop resumes a handler whose awaited task is done, and a cancelled
\* worker ends at its pending await: the service lets the cancellation through
SpecKeepAlive ==
    /\ Init /\ [][NextKeepAlive]_vars
    /\ \A c \in BridgeConns : WF_vars(StopFinish(c))
    /\ \A c \in BridgeConns, k \in Sessions : WF_vars(WorkerCancelled(c, k))

SpecConfigure == Init /\ [][NextConfigure]_vars

\* a cancelled worker that has not started, or that waits in the bridge's own send,
\* ends at its next step; one that waits inside stream_transcribe ends when the
\* service lets it
PromptCancel(c, k) == WorkerCancelled(c, k) /\ tasks[c][k].pc # "stream"

\* the event loop resumes a handler whose awaited task is done, and delivers the
\* cancellation to a worker that waits in the bridge's own code
SpecBridgeLive ==
    /\ SpecBridge
    /\ \A c \in BridgeConns : WF_vars(StopFinish(c))
    /\ \A c \in BridgeConns, k \in Sessions : WF_vars(PromptCancel(c, k))

(***************************************************************************)
(* Properties                                                              *)
(***************************************************************************)

\* C1: the pending buffer never holds more than max_segment_samples samples, and
\* every segment get_segment returns has a length L with 0 < L <= max_segment_samples
C1_SegmentBound ==
    /\ Len(proc.current_segment) <= MaxSegmentSamples
    /\ last_segment.some =>
         /\ 0 < Len(last_segment.samples)
         /\ Len(last_segment.samples) <= MaxSegmentSamples

\* get_segment has just returned the longest segment the buffer can hold
C1_Witness ==
    /\ last_call.op = "get_segment"
    /\ last_segment.some
    /\ Len(last_segment.samples) = MaxSegmentSamples - 1

\* C2: for every registered connection, session_active = false implies that none
\* of its worker tasks is still executing (or draining a queue)
C2_IdleMeansNoWorker ==
    \A c \in connections :
        ~conn_data[c].session_active =>
            \A k \in 1..Len(tasks[c]) : tasks[c][k].pc = "done"

\* a session was stopped while its worker was running: the worker was cancelled
C2_Witness ==
    \E c \in connections :
        /\ ~conn_data[c].session_active
        /\ hc[c] = "loop"
        /\ Len(tasks[c]) >= 1
        /\ tasks[c][1].cancel
        /\ tasks[c][1].pc = "done"

\* C3: once remove_connection has returned at the end of handle_connection, no
\* worker task of that connection is still in its stream, polling the queue or
\* sending
C3_DisconnectStopsWorker ==
    \A c \in ConnIds :
        (hc[c] = "done" /\ rm[c] = "returned") =>
            \A k \in 1..Len(tasks[c]) : tasks[c][k].pc \notin {"stream", "send"}

\* C4: once handle_connection has ended, remove_connection has run once, the id is
\* absent from the registry, the count is back to the number of open connections
\* and the backend handle is closed
C4_TeardownComplete ==
    \A c \in ConnIds :
        hc[c] = "done" =>
            /\ remove_calls[c] = 1
            /\ c \notin connections
            /\ connection_count = Cardinality({d \in ConnIds : hc[d] \in {"loop", "stopping", "finally"}})
            /\ riva_client[c].closed

\* an id that was issued, removed from the registry, with no call in progress
Removed(c) == c < next_id /\ c \notin connections /\ rm[c] = "returned"

\* C5: a remove_connection call for an id that is already removed changes neither
\* the registry nor the count, does not call close again, and returns normally
C5_SecondRemoveIsNoOp ==
    [][\A c \in ConnIds :
          (Removed(c) /\ remove_calls'[c] = remove_calls[c] + 1) =>
              /\ connections' = connections
              /\ connection_count' = connection_count
              /\ riva_client' = riva_client
              /\ rm'[c] = "returned"]_vars

\* remove_connection was called twice for an id and close once
C5_Witness ==
    \E c \in ConnIds :
        /\ Removed(c)
        /\ remove_calls[c] = 2
        /\ riva_client[c].close_calls = 1
        /\ riva_client[c].closed

\* the read loop of c takes a frame of this type in the step
Handles(c, type) ==
    /\ last_frame'.n = last_frame.n + 1
    /\ last_frame'.conn = c
    /\ last_frame'.type = type

\* C6: start_transcription while the session is active is answered with an error
\* and changes nothing: the flag, the queue with its chunks and the worker stay
C6_StartTwiceRejected ==
    [][\A c \in ConnIds :
          (Handles(c, "start_transcription") /\ conn_data[c].session_active) =>
              /\ conn_data'[c] = conn_data[c]
              /\ tasks'[c] = tasks[c]
              /\ riva_client'[c] = riva_client[c]
              /\ hc'[c] = hc[c]
              /\ sent'[c] = Append(sent[c], Msg("error", "already_active", 0, 0))]_vars

\* a second start_transcription was refused while a chunk was waiting in the queue
C6_Witness ==
    \E c \in ConnIds :
        /\ last_frame.conn = c
        /\ last_frame.type = "start_transcription"
        /\ conn_data[c].session_active
        /\ Len(tasks[c]) = 1
        /\ tasks[c][1].queue # <<>>
        /\ Len(sent[c]) > 0
        /\ Last(sent[c]).detail = "already_active"

\* C7: stop_transcription while the session is idle is answered with an error,
\* sends no session_stopped and changes nothing
C7_StopIdleRejected ==
    [][\A c \in ConnIds :
          (Handles(c, "stop_transcription") /\ ~conn_data[c].session_active) =>
              /\ conn_data'[c] = conn_data[c]
              /\ tasks'[c] = tasks[c]
              /\ riva_client'[c] = riva_client[c]
              /\ hc'[c] = hc[c]
              /\ sent'[c] = Append(sent[c], Msg("error", "not_active", 0, 0))]_vars

\* a stop_transcription was refused after an earlier session had been stopped
C7_Witness ==
    \E c \in ConnIds :
        /\ last_frame.conn = c
        /\ last_frame.type = "stop_transcription"
        /\ ~conn_data[c].session_active
        /\ Len(tasks[c]) = 1
        /\ Len(sent[c]) > 0
        /\ Last(sent[c]).detail = "not_active"

RECURSIVE EventsOf(_, _)
\* the recognition events of session k among the messages of a log, in order
EventsOf(log, k) ==
    IF log = <<>> THEN <<>>
    ELSE IF Head(log).sess = k /\ Head(log).type \in {"partial", "transcription"}
         THEN <<Head(log)>> \o EventsOf(Tail(log), k)
         ELSE EventsOf(Tail(log), k)

\* C8: in every session the chunks handed to the Transcription Service are a prefix
\* of the chunks accepted, in order, and the i-th event delivered to the client is
\* the i-th event the service yielded
C8_FifoOrder ==
    \A c \in ConnIds : \A k \in 1..Len(tasks[c]) :
        /\ IsPrefix(tasks[c][k].handed, tasks[c][k].accepted)
        /\ LET ev == EventsOf(sent[c], k) IN
           \A i \in 1..Len(ev) : ev[i].n = i

\* two chunks were handed over and two events delivered in one session
C8_Witness ==
    \E c \in ConnIds : \E k \in 1..Len(tasks[c]) :
        /\ Len(tasks[c][k].handed) = 2
        /\ Len(EventsOf(sent[c], k)) = 2

WorkerMessage(m, k) == m.sess = k /\ m.type \in {"partial", "transcription", "error"}

\* C9: when session_stopped is in the log, the worker of that session has ended,
\* and no partial, transcription or worker error of that session follows it
C9_StoppedAfterWorkerEnds ==
    \A c \in ConnIds : \A i \in 1..Len(sent[c]) :
        sent[c][i].type = "session_stopped" =>
            /\ tasks[c][sent[c][i].sess].pc = "done"
            /\ \A j \in (i + 1)..Len(sent[c]) : ~WorkerMessage(sent[c][j], sent[c][i].sess)

\* a session that had delivered an event was stopped, its worker cancelled
C9_Witness ==
    \E c \in ConnIds : \E i, j \in 1..Len(sent[c]) :
        /\ i < j
        /\ WorkerMessage(sent[c][i], sent[c][j].sess)
        /\ sent[c][j].type = "session_stopped"
        /\ tasks[c][sent[c][j].sess].cancel

ResultTypes == {"partial", "transcription", "error"}

\* C10: within one recording session the results carry segment ids in
\* non-decreasing order, and no result follows the session's recording_stopped
C10_OrderedResults ==
    \A i, j \in 1..Len(wh_sent) :
        (i < j /\ wh_sent[i].sess = wh_sent[j].sess) =>
            /\ (wh_sent[i].segment_id # NoSegmentId /\ wh_sent[j].segment_id # NoSegmentId) =>
                   wh_sent[i].segment_id <= wh_sent[j].segment_id
            /\ wh_sent[i].type = "recording_stopped" => wh_sent[j].type \notin ResultTypes

\* a session delivered results of segment 0 and of segment 1 and was then stopped
C10_Witness ==
    \E i, j, k \in 1..Len(wh_sent) :
        /\ i < j /\ j < k
        /\ wh_sent[i].sess = wh_sent[k].sess
        /\ wh_sent[j].sess = wh_sent[k].sess
        /\ wh_sent[i].segment_id = 0
        /\ wh_sent[j].segment_id = 1
        /\ wh_sent[j].type = "transcription"
        /\ wh_sent[k].type = "recording_stopped"

RECURSIVE FinalTexts(_, _)
\* the texts of the final results of session k that carry text, in the order sent
FinalTexts(log, k) ==
    IF log = <<>> THEN <<>>
    ELSE IF Head(log).sess = k /\ Head(log).type = "transcription" /\ Head(log).text # NoText
         THEN <<Head(log).text>> \o FinalTexts(Tail(log), k)
         ELSE FinalTexts(Tail(log), k)

\* the step handles the next frame, of this kind
WhHandles(kind) == wh_frames' = wh_frames + 1 /\ wh_last'.kind = kind

\* C11: stop_recording handled while recording submits the buffered audio, if any,
\* once as a final segment, sends that result and then recording_stopped with the
\* session's final texts joined in order followed by the last partial text, and
\* leaves the session idle with an empty buffer
C11_StopFlushes ==
    [][(WhHandles("stop_recording") /\ Recording(connection_states)) =>
          LET n == Len(connection_states.audio_processor.current_segment)
              st == connection_states'
          IN  /\ wh_submitted' =
                   IF n > 0
                   THEN Append(wh_submitted, [frame |-> wh_frames', n |-> n,
                                              is_final |-> TRUE, sess |-> wh_session])
                   ELSE wh_submitted
              /\ Len(wh_sent') = Len(wh_sent) + (IF n > 0 THEN 2 ELSE 1)
              /\ Last(wh_sent').type = "recording_stopped"
              /\ Last(wh_sent').text =
                   Join(FinalTexts(wh_sent', wh_session))
                     \o st.transcription_stream.partial_transcript
              /\ ~st.is_recording
              /\ st.audio_processor.current_segment = <<>>]_vars

\* a stop flushed a second segment with text after an interim result: the transcript
\* holds both final texts and the partial text
C11_Witness ==
    /\ wh_last.kind = "stop_recording"
    /\ connection_states.present
    /\ connection_states.transcription_stream.partial_transcript # NoText
    /\ Len(connection_states.transcription_stream.final_transcripts) = 2
    /\ wh_submitted # <<>>
    /\ Last(wh_submitted).frame = wh_frames
    /\ Last(wh_sent).type = "recording_stopped"
    /\ Len(Last(wh_sent).text) = 3

\* the session in progress has had no error result
NoErrorResult == \A i \in 1..Len(wh_sent) :
                     wh_sent[i].sess = wh_session => wh_sent[i].type # "error"

\* C12: after start, voiced chunks that together exceed the maximum segment, and
\* stop, with the service answering every call, a forced cut has happened before
\* the stop, and recording_stopped reports at least two segments and a duration
\* within one chunk of the audio sent
C12_LongUtterance ==
    (/\ wh_last.kind = "stop_recording"
     /\ connection_states.present
     /\ wh_audio.voiced
     /\ wh_audio.samples > MaxSegmentSamples
     /\ NoErrorResult) =>
        /\ \E i \in 1..Len(wh_submitted) :
              /\ wh_submitted[i].sess = wh_session
              /\ wh_submitted[i].is_final
              /\ wh_submitted[i].frame < wh_frames
        /\ Last(wh_sent).total_segments >= 2
        /\ Last(wh_sent).total_duration >=
               wh_audio.samples - (wh_audio.samples \div wh_audio.chunks)

\* C13: when connect() returns false or raises in start_transcription, one error
\* message is sent and no session_started, session_active stays false, and no
\* audio queue or worker task is created
C13_ConnectFailureKeepsIdle ==
    [][\A c \in ConnIds :
          (Handles(c, "start_transcription") /\ last_frame'.connect \in {"refused", "raises"}) =>
              /\ Len(sent'[c]) = Len(sent[c]) + 1
              /\ Last(sent'[c]).type = "error"
              /\ conn_data'[c] = conn_data[c]
              /\ ~conn_data'[c].session_active
              /\ conn_data'[c].audio_queue = 0
              /\ conn_data'[c].transcription_task = 0
              /\ tasks'[c] = tasks[c]]_vars

\* after a session that was stopped, a new start_transcription met a connect() that
\* raised
C13_Witness ==
    \E c \in ConnIds :
        /\ last_frame.conn = c
        /\ last_frame.type = "start_transcription"
        /\ last_frame.connect = "raises"
        /\ ~conn_data[c].session_active
        /\ Len(tasks[c]) = 1
        /\ Last(sent[c]).detail = "start_failed"

(* ------------------------------- C14 ----------------------------------- *)

\* the step in which the worker k of connection c ends on an exception of the
\* service stream, the session being active and the connection registered
StreamFailure(c, k) ==
    /\ k \in 1..Len(tasks[c])
    /\ c \in connections
    /\ conn_data[c].session_active
    /\ conn_data[c].audio_queue = k
    /\ tasks[c][k].pc = "stream"
    /\ ~tasks[c][k].cancel
    /\ tasks'[c][k].pc = "done"

\* the worker of the active session of c has ended on a failure of the stream
FailedSession(c) ==
    /\ c \in connections
    /\ conn_data[c].session_active
    /\ conn_data[c].audio_queue \in 1..Len(tasks[c])
    /\ tasks[c][conn_data[c].audio_queue].pc = "done"
    /\ ~tasks[c][conn_data[c].audio_queue].cancel

\* C14: when the service stream fails during an active session, an error message
\* is sent to the client, the session stays active and the connection stays
\* registered; a binary frame received afterwards is still put on the queue of
\* the session
C14_StreamFailureKeepsRecording ==
    [][\A c \in ConnIds :
        /\ \A k \in 1..Len(tasks[c]) :
              StreamFailure(c, k) =>
                /\ conn_data'[c].session_active
                /\ c \in connections'
                /\ ws_open[c] =>
                      sent'[c] = Append(sent[c], Msg("error", "transcription_error", k, 0))
        /\ (FailedSession(c) /\ Handles(c, "audio")) =>
              LET k == conn_data[c].audio_queue IN
              /\ tasks'[c][k].queue = Append(tasks[c][k].queue, last_frame'.n)
              /\ conn_data'[c].session_active
              /\ c \in connections'
              /\ sent'[c] = sent[c]]_vars

\* a frame was put on the queue of a session whose worker had failed
C14_Witness ==
    \E c \in ConnIds :
        /\ FailedSession(c)
        /\ last_frame.conn = c
        /\ last_frame.type = "audio"
        /\ \E i \in 1..Len(sent[c]) : sent[c][i].detail = "transcription_error"
        /\ LET q == tasks[c][conn_data[c].audio_queue].queue IN
           q # <<>> /\ Last(q) = last_frame.n

(* ------------------------------- C15 ----------------------------------- *)

RECURSIVE FinalSamples(_, _)
\* the samples submitted as final segments in session k
FinalSamples(log, k) ==
    IF log = <<>> THEN 0
    ELSE (IF Head(log).sess = k /\ Head(log).is_final THEN Head(log).n ELSE 0)
           + FinalSamples(Tail(log), k)

\* the messages a step appends to the log
NewlySent == SubSeq(wh_sent', Len(wh_sent) + 1, Len(wh_sent'))

\* C15: a frame causes at most one transcribe_segment call; a segment submitted as
\* final is the pending buffer, which is empty afterwards whatever the result, so
\* that the samples submitted as final never exceed the samples received; the
\* submission is answered with exactly one result, an error result when it failed,
\* and an audio frame leaves the session recording for the segments that follow
C15_SegmentSubmittedOnce ==
    [][/\ Len(wh_submitted') <= Len(wh_submitted) + 1
       /\ FinalSamples(wh_submitted', wh_session') <= wh_audio'.samples
       /\ (Len(wh_submitted') = Len(wh_submitted) + 1 /\ Last(wh_submitted').is_final) =>
             /\ Last(wh_submitted').n =
                   Len(connection_states.audio_processor.current_segment)
             /\ connection_states'.audio_processor.current_segment = <<>>
             /\ NewlySent # <<>>
             /\ Head(NewlySent).type \in {"transcription", "error"}
             /\ Head(NewlySent).segment_id # NoSegmentId
             /\ \A i \in 2..Len(NewlySent) : NewlySent[i].type = "recording_stopped"
             /\ wh_last'.kind = "audio" =>
                   (Len(NewlySent) = 1 /\ Recording(connection_states'))]_vars

\* a final submission failed and a later segment of the same session was
\* submitted and transcribed
C15_Witness ==
    /\ wh_last.kind = "audio"
    /\ connection_states.present
    /\ \E i, j \in 1..Len(wh_sent) :
          /\ i < j
          /\ wh_sent[i].sess = wh_session
          /\ wh_sent[j].sess = wh_session
          /\ wh_sent[i].type = "error"
          /\ wh_sent[i].segment_id # NoSegmentId
          /\ wh_sent[j].type = "transcription"
          /\ wh_sent[j].text # NoText
    /\ \E i, j \in 1..Len(wh_submitted) :
          /\ i < j
          /\ wh_submitted[i].sess = wh_session
          /\ wh_submitted[j].sess = wh_session
          /\ wh_submitted[i].is_final
          /\ wh_submitted[j].is_final
          /\ wh_submitted[j].frame = wh_frames
    /\ connection_states.audio_processor.current_segment = <<>>

(* ------------------------------- C16 ----------------------------------- *)

\* C16: an audio frame with an odd number of bytes handled while recording is
\* dropped silently: the buffer and the silence counter are unchanged, the session
\* stays recording, the connection stays open, and no message is sent
C16_MalformedFrameDropped ==
    [][(WhHandles("audio") /\ wh_last'.malformed /\ Recording(connection_states)) =>
          /\ connection_states'.audio_processor = connection_states.audio_processor
          /\ Recording(connection_states')
          /\ active_connections' = active_connections
          /\ wh_pc' = "loop"
          /\ wh_sent' = wh_sent]_vars

(* ------------------------------- C17 ----------------------------------- *)

\* C17: a binary frame that starts with "{" and fails to decode, as UTF-8 or as
\* JSON, is passed with the same bytes to the audio handler
C17_UndecodableBytesAreAudio ==
    wh_last.kind \in DecodingFailures => wh_last.routed = "audio"

(* ------------------------------- C18 ----------------------------------- *)

\* C18: the registered connections never exceed max_connections
C18_ConnectionLimit == Cardinality(connections) <= max_connections

(* ------------------------------- C19 ----------------------------------- *)

\* a capacity smaller than the number of audio frames a client can send in one
\* session: MaxFrames frames, of which one is start_transcription
QueueCapacity == MaxFrames - 2

\* C19: the audio queue of a session never holds more chunks than a fixed capacity
C19_QueueBounded ==
    \A c \in ConnIds : \A k \in 1..Len(tasks[c]) : Len(tasks[c][k].queue) <= QueueCapacity

(* ------------------------------- C20 ----------------------------------- *)

\* C20: a stop_transcription handled in an active session eventually completes,
\* whether or not the worker ends: the handler leaves its wait for the worker
C20_StopCompletes ==
    \A c \in BridgeConns : (hc[c] = "stopping") ~> (hc[c] # "stopping")

(* ------------------------------- C21 ----------------------------------- *)

\* C21: start_recording while recording is answered with an error and resets
\* neither the segmenter nor the transcript of the running session;
\* stop_recording while not recording is answered with an error, sends no
\* recording_stopped and changes no state
C21_RecordingGuards ==
    [][/\ (WhHandles("start_recording") /\ Recording(connection_states)) =>
             /\ NewlySent # <<>>
             /\ Head(NewlySent).type = "error"
             /\ connection_states'.audio_processor = connection_states.audio_processor
             /\ connection_states'.transcription_stream =
                  connection_states.transcription_stream
       /\ (WhHandles("stop_recording") /\ connection_states.present
             /\ ~connection_states.is_recording) =>
             /\ NewlySent # <<>>
             /\ \A i \in 1..Len(NewlySent) : NewlySent[i].type = "error"
             /\ connection_states' = connection_states]_vars

(* ------------------------------- C22 ----------------------------------- *)

\* C22: a control message of a type the dispatcher has no branch for is answered
\* with an error message and leaves the session state unchanged
C22_UnknownTypeReported ==
    [][WhHandles("unknown") =>
          /\ NewlySent # <<>>
          /\ Head(NewlySent).type = "error"
          /\ connection_states' = connection_states]_vars

(* ------------------------------- C23 ----------------------------------- *)

\* C23: configure is answered with configured, idle or recording, and leaves
\* is_recording, the pending buffer, the silence counter, the transcript state and
\* the totals as they were
C23_ConfigureKeepsRecordingState ==
    [][(WhHandles("configure") /\ connection_states.present) =>
          /\ NewlySent = <<WhMsg("configured", NoSegmentId, NoText, wh_session)>>
          /\ connection_states' =
               [connection_states EXCEPT !.settings = connection_states'.settings]
          /\ wh_submitted' = wh_submitted]_vars

\* configure has been handled in a recording session that had a pending buffer, a
\* silence count and a partial transcript, and has changed the settings
C23_Witness ==
    /\ wh_last.kind = "configure"
    /\ Recording(connection_states)
    /\ connection_states.audio_processor.current_segment # <<>>
    /\ connection_states.audio_processor.silence_counter > 0
    /\ connection_states.transcription_stream.partial_transcript # NoText
    /\ connection_states.settings # NewSettings
    /\ Last(wh_sent).type = "configured"

(* ------------------------------- C24 ----------------------------------- *)

\* C24: the number of silent chunks that cuts a segment is the configured silence
\* duration counted in chunk durations, in every state of a connection
C24_ThresholdFollowsConfig ==
    connection_states.present =>
        silence_chunks = connection_states.settings.silence_duration_s

(* ------------------------------- C25 ----------------------------------- *)

\* C25: a binary audio frame handled while the session is idle is dropped without
\* a message: in the bridge nothing is sent and the queues, workers, counters and
\* flags stay as they were; in the handler nothing is sent or submitted and the
\* connection state stays as it was
C25_IdleAudioDropped ==
    [][/\ \A c \in ConnIds :
            (Handles(c, "audio") /\ ~conn_data[c].session_active) =>
                /\ sent' = sent
                /\ tasks' = tasks
                /\ conn_data' = conn_data
                /\ connections' = connections
       /\ (WhHandles("audio") /\ connection_states.present
             /\ ~connection_states.is_recording) =>
                /\ wh_sent' = wh_sent
                /\ wh_submitted' = wh_submitted
                /\ connection_states' = connection_states]_vars

\* the bridge has handled an audio frame that arrived after a session was stopped
C25_Witness ==
    \E c \in ConnIds :
        /\ last_frame.conn = c
        /\ last_frame.type = "audio"
        /\ hc[c] = "loop"
        /\ c \in connections
        /\ ~conn_data[c].session_active
        /\ Len(tasks[c]) >= 1
        /\ \E i \in 1..Len(sent[c]) : sent[c][i].type = "session_stopped"

(* ------------------------------- C26 ----------------------------------- *)

Owned(c) == <<conn_data[c], tasks[c], riva_client[c], sent[c], hc[c], ws_open[c]>>

\* the step is one of connection c: a frame it sent, or a change of its own state
StepOf(c) ==
    \/ last_frame'.n = last_frame.n + 1 /\ last_frame'.conn = c
    \/ last_frame' = last_frame /\ Owned(c)' # Owned(c)

InSilentRun == last_call.run >= 1

\* no chunk of the run met the forced-segmentation test: the counter, 0 when the
\* run began, was incremented by every chunk of it
RunWithoutForcedCut == InSilentRun /\ proc.silence_counter = last_call.run

\* C28 as stated: of silence_chunks chunks without voice fed in a row to a
\* processor with audio pending and its silence counter at 0, process_chunk
\* reports the end of a segment on the silence_chunks-th and on none before
C28_SilenceCutOnExactChunk ==
    InSilentRun => (last_call.is_end <=> last_call.run = silence_chunks)

\* C28, amended: of silence_chunks chunks without voice fed in a row to a
\* processor with audio pending and its silence counter at 0, none of which
\* meets the forced-segmentation test, process_chunk reports the end of a
\* segment on the silence_chunks-th and on none before
C28_SilenceCutUnlessForced ==
    RunWithoutForcedCut => (last_call.is_end <=> last_call.run = silence_chunks)

C28_Witness ==
    /\ RunWithoutForcedCut
    /\ last_call.run = silence_chunks
    /\ last_call.is_end
    /\ proc.current_segment # <<>>

(* ------------------------------ C29 ------------------------------------ *)

\* the step is a process_chunk call on a chunk of zero bytes
EmptyChunkProcessed == last_call'.op = "process_chunk" /\ last_call'.nbytes = 0

\* C29: process_chunk on a chunk of zero bytes finds no voice activity, leaves
\* the pending buffer and the silence counter as they were, and does not report
\* the end of a segment
C29_EmptyChunkNoEffect ==
    [][EmptyChunkProcessed =>
          /\ ~last_call'.has_voice
          /\ proc' = proc
          /\ ~last_call'.is_end]_vars

(* ------------------------------ C30 ------------------------------------ *)

\* the segmenter and the transcription stream are as reset() leaves them
SessionReset(st) ==
    /\ st.audio_processor.current_segment = <<>>
    /\ st.audio_processor.silence_counter = 0
    /\ st.transcription_stream.segment_id = 0
    /\ st.transcription_stream.final_transcripts = <<>>
    /\ st.transcription_stream.partial_transcript = NoText
    /\ st.transcription_stream.current_time_offset = 0

\* the totals a recording_stopped message carries are those of the segments
\* counted since the latest start_recording
ReportsSessionTotals(msg) ==
    /\ msg.type = "recording_stopped"
    /\ msg.total_segments = wh_audio.segments
    /\ msg.total_duration = wh_audio.duration

\* C30: every start_recording that is handled, the first of a connection and any
\* later one, leaves the pending buffer empty, the silence counter 0, segment_id
\* 0, the final and partial transcripts empty and the time offset 0, and the
\* total_segments and total_duration reported when recording stops count only the
\* segments of the session that start_recording began
C30_StartResetsSession ==
    [][/\ WhHandles("start_recording") =>
            connection_states'.is_recording /\ SessionReset(connection_states')
       /\ WhHandles("stop_recording") /\ wh_session >= 1 =>
            ReportsSessionTotals(Last(wh_sent'))]_vars

\* the part of C30 that start_recording does establish
C30_StartResetsSegmenter ==
    [][WhHandles("start_recording") =>
            connection_states'.is_recording /\ SessionReset(connection_states')]_vars

(* ------------------------------ C31 ------------------------------------ *)

\* the step made a transcribe_segment call with is_final = True that returned a
\* result and no error
FinalResultReturned ==
    /\ Len(wh_submitted') = Len(wh_submitted) + 1
    /\ Last(wh_submitted').is_final
    /\ NewlySent # <<>>
    /\ Head(NewlySent).type = "transcription"

\* C31: every final result of transcribe_segment, with text or without, advances
\* the time offset by the length of its segment and appends its text to the final
\* transcripts, so that within a session the offset is the summed length of the
\* segments transcribed as final and the transcript holds their texts in order
C31_FinalAdvancesOffset ==
    [][FinalResultReturned =>
          LET ts == connection_states.transcription_stream
              ts1 == connection_states'.transcription_stream
          IN  /\ ts1.current_time_offset =
                    ts.current_time_offset + Last(wh_submitted').n
              /\ ts1.final_transcripts =
                    Append(ts.final_transcripts, Head(NewlySent).text)]_vars

(* ------------------------------ C32 ------------------------------------ *)

\* the step is a process_chunk call that decoded its chunk
ChunkProcessed == last_call'.op = "process_chunk" /\ ~last_call'.raised

\* the samples of the chunk the step passed to process_chunk
SamplesPassed == last_call'.nbytes \div BytesPerSample

\* appending the chunk would make the pending buffer exceed max_segment_samples
WouldExceed == Len(proc.current_segment) + SamplesPassed > MaxSegmentSamples

\* the silence rule applies to the chunk
SilenceRule ==
    /\ ~last_call'.has_voice
    /\ proc.silence_counter + 1 >= silence_chunks
    /\ proc.current_segment # <<>>

\* C32: process_chunk reports a forced cut exactly when the pending buffer with
\* the chunk appended would exceed max_segment_samples, whatever the silence rule
\* says; a chunk that does not take the buffer beyond max_segment_samples (one
\* that fills it exactly included) is cut only by the silence rule and is
\* otherwise accumulated
C32_PriorityOrder ==
    [][ChunkProcessed =>
          IF WouldExceed
          THEN last_call'.is_end /\ proc'.current_segment = proc.current_segment
          ELSE /\ last_call'.is_end <=> SilenceRule
               /\ ~last_call'.is_end =>
                     Len(proc'.current_segment) =
                         Len(proc.current_segment) + SamplesPassed]_vars

(* ------------------------------ C33 ------------------------------------ *)

\* the step made a transcribe_segment call that failed
TranscriptionFailed == Len(wh_submitted') = Len(wh_submitted) + 1 /\ wh_audio'.failed

\* C33: every failed transcription of buffered audio (a completed segment, the
\* flush at stop, an interim transcription of a long pending buffer) is
\* delivered to the client as a message of type error, never as partial or
\* transcription
C33_FailureSentAsError ==
    [][TranscriptionFailed =>
          /\ NewlySent # <<>>
          /\ Head(NewlySent).type = "error"]_vars

(* ------------------------------ C34 ------------------------------------ *)

\* C34: once handle_websocket has ended and disconnect has returned, the backend
\* connection the client's TranscriptionStream opened is closed
C34_DisconnectClosesBackend ==
    wh_pc = "done" => ~connection_states.transcription_stream.connected

(* ------------------------------ C35 ------------------------------------ *)

\* handle_websocket of the client has ended
PbEnded(c) == pb_pc[c] \in {"done", "raised"}

\* C35: when a client's connection has ended, handle_websocket has completed
\* without raising and active_streams holds no entry for the client
C35_TeardownRemovesStream ==
    \A c \in PbClients : PbEnded(c) => (pb_pc[c] = "done" /\ c \notin active_streams)

(* ------------------------------ C36 ------------------------------------ *)

\* no remove_connection call is suspended in close()
NoRemoveSuspended == \A c \in ConnIds : rm[c] # "closing"

\* C36: however add_connection and remove_connection calls interleave,
\* connection_count is never negative, and it is the number of entries of the
\* registry whenever no remove_connection call is suspended
C36_CountMatchesRegistry ==
    /\ connection_count >= 0
    /\ NoRemoveSuspended => connection_count = Cardinality(connections)

\* one connection was removed, the close() of a second raised, which leaves it
\* registered, and a third is registered: two entries are counted
C36_Witness ==
    /\ NoRemoveSuspended
    /\ \E c, d, e \in ConnIds :
          /\ Removed(c)
          /\ rm[d] = "raised" /\ d \in connections
          /\ e \in connections /\ e # d
    /\ connection_count = 2

(* ------------------------------ C37 ------------------------------------ *)

\* C37: between the handling of two messages a client id is a key of
\* active_connections exactly if it is a key of connection_states, also after a
\* send to the client has failed
C37_RegistriesConsistent ==
    /\ Client \in active_connections <=> connection_states.present
    /\ Peer \in active_connections <=> peer_states.present

(* ------------------------------ C38 ------------------------------------ *)

\* C38: when a session is stopped, the segments taken from the segmenter (at
\* every cut and at the stop) hold every sample of the well-formed chunks the
\* session received: none is lost, the chunk that triggered a cut included
C38_AudioConserved ==
    (/\ wh_last.kind = "stop_recording"
     /\ connection_states.present
     /\ wh_session >= 1) =>
        FinalSamples(wh_submitted, wh_session) = wh_audio.samples

(* ------------------------------ C39 ------------------------------------ *)

\* the event loop runs every task that is ready: a worker starts, takes the chunk
\* the service asks for when one is queued, completes its send, and is cancelled
\* at its await; a handler resumes when the task it awaits is done
SpecBridgeFair ==
    /\ SpecBridge
    /\ \A c \in BridgeConns : WF_vars(StopFinish(c))
    /\ \A c \in BridgeConns, k \in Sessions :
          /\ WF_vars(WorkerStart(c, k))
          /\ WF_vars(WorkerPull(c, k))
          /\ WF_vars(WorkerSends(c, k))
          /\ WF_vars(WorkerCancelled(c, k))

\* session k of a registered connection is recording and chunks wait in its queue
QueueWaiting(c, k) ==
    /\ c \in connections
    /\ conn_data[c].session_active
    /\ conn_data[c].audio_queue = k
    /\ k \in 1..Len(tasks[c])
    /\ tasks[c][k].queue # <<>>

\* C39: under fair scheduling a recording session does not keep chunks waiting in
\* its queue for ever: they are taken by the worker and handed to the service, or
\* the session stops recording, also after the worker has reported an error
C39_QueueConsumed ==
    \A c \in BridgeConns, k \in Sessions :
        QueueWaiting(c, k) ~> ~QueueWaiting(c, k)

(* ------------------------------ C40 ------------------------------------ *)

\* some sample of the audio came from a chunk classified as voice
HoldsVoice(samples) == \E i \in 1..Len(samples) : samples[i]

\* C40: every segment get_segment returns holds a chunk that was classified as
\* voice, and process_chunk reports the end of a segment only when the pending
\* buffer holds one: chunks without voice alone never complete a segment
C40_SegmentsHoldVoice ==
    /\ last_segment.some => HoldsVoice(last_segment.samples)
    /\ (last_call.op = "process_chunk" /\ last_call.is_end) =>
          HoldsVoice(proc.current_segment)

====
